---- MODULE Spec2Model ----
(***************************************************************************)
(* Model of ci/process_notebooks.py: the notebook quality-control script.  *)
(*                                                                         *)
(*   Spec     main(): filter, load/gate/execute loop, write loop, exit     *)
(*   SpecRS   remove_solutions() applied to bounded notebooks              *)
(*   SpecSeq  sequentially_executed() applied to bounded notebooks         *)
(*                                                                         *)
(* Representation.  A Python value that may be None or absent is a         *)
(* sequence of length at most one (<<>> is None, <<v>> is v).  A cell is a *)
(* record whose DOMAIN is the set of keys the cell dict holds, so that     *)
(* `del cell["outputs"]` really removes the field and `cell["outputs"]` on *)
(* a cell without it is the KeyError of the code.  A source string is      *)
(* [chars, imgs]: chars is the text as a sequence of symbols, imgs the     *)
(* file names of the <img> tags appended to it (empty for ordinary code).  *)
(***************************************************************************)
EXTENDS Integers, Sequences, FiniteSets, TLC

VARIABLES
    argv,        \* the command line: [files, flags]
    args,        \* parsed command line: [files, check_only, require_sequntial]
    pc,          \* position of main(): parse, loop, decide, write, report, exited, idle
    nb_paths,    \* main: the filtered list of notebook paths
    k,           \* main: 1-based position of the first loop in nb_paths
    errors,      \* main: dict path -> error, as an insertion-ordered list of items
    notebooks,   \* main: dict path -> executed notebook, insertion-ordered items
    w,           \* main: 1-based position of the write loop in notebooks
    orig_fs,     \* content of the input files, revealed when first read
    out_fs,      \* what the run wrote: dirs, student notebooks, images, inputs
    stdout,      \* lines printed so far
    status,      \* process exit status, <<>> while running
    hist,        \* history: paths loaded, paths whose execution raised
    fn_pc,       \* SpecRS / SpecSeq: "input" before the call, then the outcome
    fn_in,       \* SpecRS / SpecSeq: the notebook passed to the function
    fn_out       \* SpecRS / SpecSeq: what the function returned

vars == <<argv, args, pc, nb_paths, k, errors, notebooks, w, orig_fs, out_fs,
          stdout, status, hist, fn_pc, fn_in, fn_out>>

mainVars == <<argv, args, pc, nb_paths, k, errors, notebooks, w, orig_fs, out_fs,
              stdout, status, hist>>

fnVars == <<fn_pc, fn_in, fn_out>>

----------------------------------------------------------------------------
(* Bounds *)

MaxCellsSeq == 3
MaxCount == 3
MaxCellsRS == 3
MaxCells == 2
MaxFiles == 2

----------------------------------------------------------------------------
(* Generic helpers *)

RECURSIVE SeqsUpTo(_, _)
SeqsUpTo(S, n) ==
    IF n = 0 THEN {<<>>}
    ELSE LET shorter == SeqsUpTo(S, n - 1)
         IN  shorter \cup {Append(s, x) : s \in {t \in shorter : Len(t) = n - 1}, x \in S}

Range(s) == {s[j] : j \in 1..Len(s)}

RemoveAt(s, j) == [m \in 1..(Len(s) - 1) |-> IF m < j THEN s[m] ELSE s[m + 1]]

HasKey(cell, key) == key \in DOMAIN cell

----------------------------------------------------------------------------
(* Source text *)

Marker == <<"#@title", "solution">>

Lower(ch) ==
    CASE ch = "#@Title"  -> "#@title"
      [] ch = "Solution" -> "solution"
      [] OTHER           -> ch

\* source.replace(" ", "").lower()
Normalize(chars) ==
    LET nospace == SelectSeq(chars, LAMBDA ch : ch # " ")
    IN  [j \in 1..Len(nospace) |-> Lower(nospace[j])]

StartsWith(s, prefix) ==
    /\ Len(s) >= Len(prefix)
    /\ SubSeq(s, 1, Len(prefix)) = prefix

\* cell_text.startswith("#@titlesolution")
IsSolution(cell) == StartsWith(Normalize(cell.source.chars), Marker)

Text(chars) == [chars |-> chars, imgs |-> <<>>]

SrcEmpty == Text(<<>>)
SrcPlot == Text(<<"plot()">>)
SrcQuiet == Text(<<"x=1">>)
SrcSolPlot == Text(<<"#@title", " ", "Solution", "\n", "plot()">>)
SrcSolPlot2 == Text(<<"#@Title", "solution", "\n", "print()", "plot()", "plot()">>)
SrcSolQuiet == Text(<<"#@title", " ", "solution", "\n", "x=1">>)
SrcSolQuietB == Text(<<" ", "#@title", "solution", "\n", "x=1">>)
SrcLateMarker == Text(<<"plot()", "\n", "#@title", "solution">>)

----------------------------------------------------------------------------
(* Cells *)

CodeCell(src, outs, ec) ==
    [cell_type |-> "code", source |-> src, outputs |-> outs, execution_count |-> ec]

MarkdownCell(src) == [cell_type |-> "markdown", source |-> src]

Image == [output_type |-> "display_data", mime |-> "image/png"]
Stream == [output_type |-> "stream", mime |-> "text/plain"]

----------------------------------------------------------------------------
(* sequentially_executed *)

\* cell["source"] and cell.get("execution_count", None) is not None
Counted(cell) ==
    /\ cell.source.chars # <<>>
    /\ HasKey(cell, "execution_count")
    /\ cell.execution_count # <<>>

exec_counts(cells) ==
    LET counted == SelectSeq(cells, Counted)
    IN  [j \in 1..Len(counted) |-> counted[j].execution_count[1]]

\* Mutant of sequential_counts: range(0, n)
sequential_counts_from0(n) == [j \in 1..n |-> j - 1]

\* list(range(1, 1 + len(exec_counts)))
sequential_counts(n) == [j \in 1..n |-> j]

sequentially_executed(cells) ==
    exec_counts(cells) = sequential_counts(Len(exec_counts(cells)))

----------------------------------------------------------------------------
(* Image extraction: ExtractOutputPreprocessor with the template            *)
(* "../static/{nb_name}_Solution_{cell_index}_{index}{extension}".  A file   *)
(* name is the record of the template's fields; cell_index and index are    *)
(* the 0-based positions in the notebook handed to the exporter.            *)

Extension(mime) ==
    CASE mime = "image/png"  -> ".png"
      [] mime = "image/jpeg" -> ".jpeg"
      [] OTHER               -> ".bin"

Extractable(out) ==
    /\ out.output_type \in {"display_data", "execute_result"}
    /\ out.mime \in {"image/png", "image/jpeg"}

template(nb_name, cell_index, index, extension) ==
    [dir |-> <<"..", "static">>, nb_name |-> nb_name, cell_index |-> cell_index,
     index |-> index, extension |-> extension]

ExtractCell(cell, cell_index, nb_name) ==
    IF ~HasKey(cell, "outputs") THEN <<>>
    ELSE LET outs == cell.outputs
             names == [j \in 1..Len(outs) |->
                         template(nb_name, cell_index, j - 1, Extension(outs[j].mime))]
         IN  SelectSeq(names, LAMBDA f : Extractable(outs[f.index + 1]))

RECURSIVE ExtractFrom(_, _, _)
ExtractFrom(cells, n, nb_name) ==
    IF n = 0 THEN <<>>
    ELSE ExtractFrom(cells, n - 1, nb_name) \o ExtractCell(cells[n], n - 1, nb_name)

\* resources["outputs"]: the extracted file names in insertion order
ExtractOutputs(cells, nb_name) == ExtractFrom(cells, Len(cells), nb_name)

RECURSIVE Digits(_)
Digits(n) == IF n < 10 THEN <<n>> ELSE Append(Digits(n \div 10), n % 10)

\* f"Solution_{i}" in k: a substring test, so the decimal text of i only has
\* to be a prefix of the decimal text of the file's cell_index.
\* (A notebook name that itself contains "Solution_<i>" is not modelled.)
NameMatches(i, f) == StartsWith(Digits(f.cell_index), Digits(i))

----------------------------------------------------------------------------
(* remove_solutions *)

\* dict.update with a list of keys: new keys are appended in order
RECURSIVE DictUpdate(_, _)
DictUpdate(keys, new) ==
    IF new = <<>> THEN keys
    ELSE DictUpdate(IF Head(new) \in Range(keys) THEN keys ELSE Append(keys, Head(new)),
                    Tail(new))

\* "**Example output:**\n\n" + "\n\n".join(<img src=f align='left'> for f in paths)
new_source(image_paths) == [chars |-> <<"**Example output:**">>, imgs |-> image_paths]

\* cell["source"] = ...; cell["cell_type"] = "markdown"; del outputs, execution_count
ToMarkdown(cell, image_paths) ==
    [key \in DOMAIN cell \ {"outputs", "execution_count"} |->
        CASE key = "source"    -> new_source(image_paths)
          [] key = "cell_type" -> "markdown"
          [] OTHER             -> cell[key]]

\* Mutant of FirstEqual: nb_cells.pop(0)
FirstEqualHead(cells, cell) == 1

\* list.remove(cell): the position of the first element equal to cell
FirstEqual(cells, cell) ==
    CHOOSE j \in 1..Len(cells) :
        /\ cells[j] = cell
        /\ \A m \in 1..(j - 1) : cells[m] # cell

\* for i, cell in enumerate(nb_cells): the list iterator reads position i of
\* the list as it is now, also after a removal.  st.orig carries, for every
\* cell still in the list, its position in the notebook that was passed in.
RECURSIVE SolutionLoop(_, _, _)
SolutionLoop(st, i, outputs) ==
    IF i >= Len(st.cells) THEN st
    ELSE LET cell == st.cells[i + 1] IN
         IF ~IsSolution(cell) THEN SolutionLoop(st, i + 1, outputs)
         ELSE IF ~HasKey(cell, "outputs") THEN [st EXCEPT !.raised = <<"KeyError">>]
         ELSE IF cell.outputs = <<>>
              THEN LET j == FirstEqual(st.cells, cell)
                   IN  SolutionLoop([st EXCEPT !.cells = RemoveAt(st.cells, j),
                                               !.orig = RemoveAt(st.orig, j)],
                                    i + 1, outputs)
              ELSE LET image_paths == SelectSeq(outputs, LAMBDA f : NameMatches(i, f))
                   IN  SolutionLoop(
                           [st EXCEPT !.cells[i + 1] = ToMarkdown(cell, image_paths),
                                      !.solution_resources =
                                          DictUpdate(st.solution_resources, image_paths)],
                           i + 1, outputs)

\* The exporter works on a deep copy, the loop on the notebook itself.
remove_solutions(cells, nb_name) ==
    SolutionLoop([cells |-> cells,
                  orig |-> [j \in 1..Len(cells) |-> j - 1],
                  solution_resources |-> <<>>,
                  raised |-> <<>>],
                 0, ExtractOutputs(cells, nb_name))

----------------------------------------------------------------------------
(* Execution: ExecutePreprocessor.preprocess on a notebook whose kernel     *)
(* does not fail.  Code cells with non-blank source run in order, get the   *)
(* next execution count and the outputs their code produces; other cells    *)
(* are left as loaded.                                                      *)

Blank(chars) == \A j \in 1..Len(chars) : chars[j] \in {" ", "\n"}

Produces(ch) ==
    CASE ch = "plot()"  -> <<Image>>
      [] ch = "print()" -> <<Stream>>
      [] OTHER          -> <<>>

RECURSIVE OutputsOf(_)
OutputsOf(chars) ==
    IF chars = <<>> THEN <<>> ELSE Produces(Head(chars)) \o OutputsOf(Tail(chars))

Runs(cell) == cell.cell_type = "code" /\ ~Blank(cell.source.chars)

RunsBefore(cells, n) == Cardinality({j \in 1..(n - 1) : Runs(cells[j])})

Executed(cells) ==
    [n \in 1..Len(cells) |->
        IF Runs(cells[n])
        THEN [cells[n] EXCEPT !.outputs = OutputsOf(cells[n].source.chars),
                              !.execution_count = <<RunsBefore(cells, n) + 1>>]
        ELSE cells[n]]

----------------------------------------------------------------------------
(* Paths, dicts and the files the run can touch *)

Path(dir, stem, ext) == [dir |-> dir, stem |-> stem, ext |-> ext]

PathA == Path("tutorials", "W1D1_Tutorial1", ".ipynb")
PathB == Path("tutorials", "W1D1_Tutorial2", ".ipynb")
PathT == Path("tutorials", "README", ".md")

Paths == {PathA, PathB, PathT}

\* arg.endswith(".ipynb")
IsNotebookPath(path) == path.ext = ".ipynb"

NotebookPaths == {path \in Paths : IsNotebookPath(path)}

\* d[key] = val on an insertion-ordered dict
DictSet(d, key, val) ==
    IF \E j \in 1..Len(d) : d[j].key = key
    THEN [j \in 1..Len(d) |-> IF d[j].key = key THEN [key |-> key, val |-> val] ELSE d[j]]
    ELSE Append(d, [key |-> key, val |-> val])

Keys(d) == {d[j].key : j \in 1..Len(d)}

Get(d, key) == (CHOOSE item \in Range(d) : item.key = key).val

\* open(path, "w") and write: the file at path now holds content
WriteFile(files, path, content) ==
    {f \in files : f.path # path} \cup {[path |-> path, content |-> content]}

NotSequentialMessage == "Notebook is not sequentially executed."
ExecutionError == "CellExecutionError"

Line(text, path, error) == [line |-> text, path |-> path, error |-> error]

\* Cells of the notebooks on disk: a plain cell run first, a solution cell
\* run second, a markdown cell whose text starts with the marker.
DiskCells ==
    { CodeCell(SrcPlot, <<>>, <<1>>),
      CodeCell(SrcSolPlot, <<>>, <<2>>),
      MarkdownCell(SrcSolQuietB) }

DiskNotebooks == SeqsUpTo(DiskCells, MaxCells)

----------------------------------------------------------------------------
(* main *)

\* os.path.join(nb_dir, name); os.mkdir when it does not exist
sub_dir(nb_dir, name) == <<nb_dir, name>>

make_sub_dir(dirs, nb_dir, name) ==
    IF sub_dir(nb_dir, name) \in dirs THEN dirs ELSE dirs \cup {sub_dir(nb_dir, name)}

\* fname.replace("../static", static_dir)
StaticFile(fname, static_dir) ==
    IF fname.dir = <<"..", "static">> THEN [fname EXCEPT !.dir = static_dir] ELSE fname

\* Mutant of ReportLines: only the first failure is reported
ReportFirst(errs) ==
    IF errs = <<>> THEN <<>>
    ELSE <<Line("failed quality control.", <<Head(errs).key>>, Head(errs).val)>>

RECURSIVE ReportLines(_)
ReportLines(errs) ==
    IF errs = <<>> THEN <<>>
    ELSE <<Line("failed quality control.", <<Head(errs).key>>, Head(errs).val)>>
         \o ReportLines(Tail(errs))

\* exit(errors): the lines printed and the status handed to sys.exit
exit(errs) ==
    [lines  |-> ReportLines(errs)
                \o <<Line(IF errs # <<>> THEN "Failure" ELSE "Success", <<>>, "")>>,
     status |-> IF errs # <<>> THEN 1 ELSE 0]

\* Mutant of GateRejects: the flag is not consulted
GateIgnoresFlag(cells, require_sequntial) == ~sequentially_executed(cells)

\* if not sequentially_executed(nb): if args.require_sequntial: ... continue
GateRejects(cells, require_sequntial) ==
    ~sequentially_executed(cells) /\ require_sequntial

\* Mutants of SkipsWriting: one operand of the `or` dropped
SkipsOnCheckOnly(errs, check_only) == check_only

SkipsOnErrors(errs, check_only) == errs # <<>>

\* if errors or args.check_only: exit(errors)
SkipsWriting(errs, check_only) == errs # <<>> \/ check_only

NoFiles == [dirs |-> {}, student |-> {}, static |-> {}, inputs |-> {}]

\* files has nargs="+": at least one path
ArgLists ==
    [files : SeqsUpTo(Paths, MaxFiles) \ {<<>>},
     flags : SUBSET {"--check-only", "--allow-non-sequential"}]

\* --check-only is store_true; --allow-non-sequential is store_false into
\* require_sequntial, which therefore defaults to True
parse_args(arglist) ==
    [files             |-> arglist.files,
     check_only        |-> "--check-only" \in arglist.flags,
     require_sequntial |-> "--allow-non-sequential" \notin arglist.flags]

MainStart ==
    /\ nb_paths = <<>>
    /\ k = 1
    /\ errors = <<>>
    /\ notebooks = <<>>
    /\ w = 1
    /\ orig_fs = [path \in NotebookPaths |-> <<>>]
    /\ out_fs = NoFiles
    /\ stdout = <<>>
    /\ status = <<>>
    /\ hist = [loaded |-> <<>>, raised |-> {}, uncaught |-> <<>>]

FnIdle == fn_pc = "idle" /\ fn_in = <<>> /\ fn_out = <<>>

Init ==
    /\ argv \in ArgLists
    /\ args = parse_args(argv)
    /\ pc = "parse"
    /\ MainStart
    /\ FnIdle

\* nb_paths = [arg for arg in args.files if arg.endswith(".ipynb")]
Main_Filter ==
    /\ pc = "parse"
    /\ LET found == SelectSeq(args.files, IsNotebookPath) IN
       /\ nb_paths' = found
       /\ IF found = <<>>
          THEN /\ stdout' = Append(stdout, Line("No notebook files found", <<>>, ""))
               /\ status' = <<0>>
               /\ pc' = "exited"
          ELSE /\ pc' = "loop"
               /\ UNCHANGED <<stdout, status>>
    /\ UNCHANGED <<argv, args, k, errors, notebooks, w, orig_fs, out_fs, hist, fnVars>>

\* One iteration of `for nb_path in nb_paths`: load, gate, execute.
\* The file's content is an input fixed at its first read; whether the
\* kernel gets through the notebook (ok) is an input of every execution.
Main_Process ==
    /\ pc = "loop"
    /\ LET nb_path == nb_paths[k] IN
       \E nb \in (IF orig_fs[nb_path] = <<>> THEN DiskNotebooks ELSE {orig_fs[nb_path][1]}),
          ok \in BOOLEAN :
          /\ orig_fs' = [orig_fs EXCEPT ![nb_path] = <<nb>>]
          /\ IF GateRejects(nb, args.require_sequntial)
             THEN /\ errors' = DictSet(errors, nb_path, NotSequentialMessage)
                  /\ hist' = [hist EXCEPT !.loaded = Append(@, nb_path)]
                  /\ UNCHANGED <<notebooks, stdout>>
             ELSE /\ stdout' = Append(stdout, Line("Executing", <<nb_path>>, ""))
                  /\ IF ok
                     THEN /\ notebooks' = DictSet(notebooks, nb_path, Executed(nb))
                          /\ hist' = [hist EXCEPT !.loaded = Append(@, nb_path)]
                          /\ UNCHANGED errors
                     ELSE /\ errors' = DictSet(errors, nb_path, ExecutionError)
                          /\ hist' = [hist EXCEPT !.loaded = Append(@, nb_path),
                                                  !.raised = @ \cup {nb_path}]
                          /\ UNCHANGED notebooks
    /\ k' = k + 1
    /\ pc' = IF k = Len(nb_paths) THEN "decide" ELSE "loop"
    /\ UNCHANGED <<argv, args, nb_paths, w, out_fs, status, fnVars>>

\* With nothing to write the second loop has no iteration and main goes on
\* to its final exit(errors).
Main_Decide ==
    /\ pc = "decide"
    /\ pc' = IF SkipsWriting(errors, args.check_only) \/ notebooks = <<>>
             THEN "report"
             ELSE "write"
    /\ UNCHANGED <<argv, args, nb_paths, k, errors, notebooks, w, orig_fs, out_fs, stdout,
                   status, hist, fnVars>>

\* One iteration of `for nb_path, nb in notebooks.items()`.  remove_solutions
\* works on nb itself, so student_nb and nb are one object: what is written
\* to the student path and to nb_path is the notebook as the loop left it.
\* A KeyError out of remove_solutions is not caught: the interpreter prints
\* the traceback and the process ends with status 1.
Main_Write ==
    /\ pc = "write"
    /\ LET nb_path == notebooks[w].key
           nb == notebooks[w].val
           nb_dir == nb_path.dir
           nb_name == nb_path.stem
           student_dir == sub_dir(nb_dir, "student")
           static_dir == sub_dir(nb_dir, "static")
           dirs == make_sub_dir(make_sub_dir(out_fs.dirs, nb_dir, "student"), nb_dir, "static")
           res == remove_solutions(nb, nb_name)
           student_nb_path == [dir |-> student_dir, stem |-> nb_path.stem, ext |-> nb_path.ext]
           removing == Line("Removing solutions from", <<nb_path>>, "")
       IN
       IF res.raised # <<>>
       THEN /\ out_fs' = [out_fs EXCEPT !.dirs = dirs]
            /\ notebooks' = [notebooks EXCEPT ![w].val = res.cells]
            /\ stdout' = Append(stdout, removing)
            /\ hist' = [hist EXCEPT !.uncaught = res.raised]
            /\ status' = <<1>>
            /\ pc' = "exited"
            /\ w' = w
       ELSE /\ out_fs' =
                  [dirs    |-> dirs,
                   student |-> WriteFile(out_fs.student, student_nb_path, res.cells),
                   static  |-> out_fs.static \cup
                                 {StaticFile(f, static_dir) : f \in Range(res.solution_resources)},
                   inputs  |-> WriteFile(out_fs.inputs, nb_path, res.cells)]
            /\ notebooks' = [notebooks EXCEPT ![w].val = res.cells]
            /\ stdout' = stdout \o <<removing,
                                      Line("Writing student notebook to", <<student_nb_path>>, ""),
                                      Line("Writing solution resources to", <<>>, "")>>
            /\ w' = w + 1
            /\ pc' = IF w = Len(notebooks) THEN "report" ELSE "write"
            /\ UNCHANGED <<hist, status>>
    /\ UNCHANGED <<argv, args, nb_paths, k, errors, orig_fs, fnVars>>

Main_Exit ==
    /\ pc = "report"
    /\ stdout' = stdout \o exit(errors).lines
    /\ status' = <<exit(errors).status>>
    /\ pc' = "exited"
    /\ UNCHANGED <<argv, args, nb_paths, k, errors, notebooks, w, orig_fs, out_fs, hist, fnVars>>

Next ==
    \/ Main_Filter
    \/ Main_Process
    \/ Main_Decide
    \/ Main_Write
    \/ Main_Exit

Spec == Init /\ [][Next]_vars

----------------------------------------------------------------------------
(* remove_solutions and sequentially_executed on their own: the notebook   *)
(* is drawn in the initial state, one action applies the function.         *)

MainIdle ==
    /\ argv = [files |-> <<PathA>>, flags |-> {}]
    /\ args = parse_args(argv)
    /\ pc = "idle"
    /\ MainStart

\* Cells as a notebook can hold them after execution, equal cells included.
RSCells ==
    { CodeCell(SrcPlot, <<Image>>, <<1>>),
      CodeCell(SrcQuiet, <<>>, <<1>>),
      CodeCell(SrcSolQuiet, <<>>, <<1>>),
      CodeCell(SrcSolQuietB, <<>>, <<2>>),
      CodeCell(SrcSolPlot, <<Image>>, <<1>>),
      CodeCell(SrcSolPlot2, <<Stream, Image, Image>>, <<2>>),
      MarkdownCell(SrcLateMarker),
      MarkdownCell(SrcSolQuietB) }

RSName == "W1D1_Tutorial1"

InitRS ==
    /\ MainIdle
    /\ fn_pc = "input"
    /\ fn_in \in SeqsUpTo(RSCells, MaxCellsRS)
    /\ fn_out = <<>>

RS_Call ==
    /\ fn_pc = "input"
    /\ fn_out' = remove_solutions(fn_in, RSName)
    /\ fn_pc' = IF fn_out'.raised # <<>> THEN "raised" ELSE "returned"
    /\ UNCHANGED <<mainVars, fn_in>>

NextRS == RS_Call

SpecRS == InitRS /\ [][NextRS]_vars

SeqCells ==
    {CodeCell(src, <<>>, ec) : src \in {SrcEmpty, SrcQuiet},
                               ec \in {<<>>} \cup {<<n>> : n \in 0..MaxCount}}
    \cup {MarkdownCell(SrcQuiet)}

InitSeq ==
    /\ MainIdle
    /\ fn_pc = "input"
    /\ fn_in \in SeqsUpTo(SeqCells, MaxCellsSeq)
    /\ fn_out = <<>>

Seq_Call ==
    /\ fn_pc = "input"
    /\ fn_out' = <<sequentially_executed(fn_in)>>
    /\ fn_pc' = "checked"
    /\ UNCHANGED <<mainVars, fn_in>>

NextSeq == Seq_Call

SpecSeq == InitSeq /\ [][NextSeq]_vars


----------------------------------------------------------------------------
(* Properties of remove_solutions (SpecRS) *)

EmptySolution(cell) ==
    /\ IsSolution(cell)
    /\ HasKey(cell, "outputs")
    /\ cell.outputs = <<>>

SolutionWithOutputs(cell) ==
    /\ IsSolution(cell)
    /\ HasKey(cell, "outputs")
    /\ cell.outputs # <<>>

\* The images extracted from the cell at 0-based position o of the input
ImagesOfCell(o) ==
    SelectSeq(ExtractOutputs(fn_in, RSName), LAMBDA f : f.cell_index = o)

\* C2: in the notebook remove_solutions returns, no cell is a marked solution
\* cell with empty outputs.
C2_NoEmptySolutionRemains ==
    fn_pc = "returned" =>
        \A j \in 1..Len(fn_out.cells) : ~EmptySolution(fn_out.cells[j])

\* C3: every marked solution cell of the input that has outputs is, in the
\* returned notebook, a markdown cell without outputs and execution_count
\* whose <img> tags are exactly the images extracted from that cell, in
\* output order.
C3_SolutionBecomesMarkdown ==
    fn_pc = "returned" =>
        \A o \in 0..(Len(fn_in) - 1) :
            SolutionWithOutputs(fn_in[o + 1]) =>
                \E j \in 1..Len(fn_out.cells) :
                    /\ fn_out.orig[j] = o
                    /\ fn_out.cells[j].cell_type = "markdown"
                    /\ ~HasKey(fn_out.cells[j], "outputs")
                    /\ ~HasKey(fn_out.cells[j], "execution_count")
                    /\ fn_out.cells[j].source.imgs = ImagesOfCell(o)

\* C4: cells that do not match the marker come back unchanged, the cells
\* that remain are in their input order, and only marked solution cells
\* with empty outputs are missing.
C4_UnmarkedCellsAndOrderKept ==
    fn_pc = "returned" =>
        /\ Len(fn_out.orig) = Len(fn_out.cells)
        /\ \A j \in 1..Len(fn_out.orig) :
              /\ fn_out.orig[j] \in 0..(Len(fn_in) - 1)
              /\ j > 1 => fn_out.orig[j - 1] < fn_out.orig[j]
              /\ ~IsSolution(fn_in[fn_out.orig[j] + 1]) =>
                    fn_out.cells[j] = fn_in[fn_out.orig[j] + 1]
        /\ \A o \in 0..(Len(fn_in) - 1) :
              o \notin Range(fn_out.orig) => EmptySolution(fn_in[o + 1])

\* C4 witness: a call that removed a cell, converted a cell and kept an
\* unmarked cell with outputs.
C4_Witness ==
    /\ fn_pc = "returned"
    /\ Len(fn_out.cells) < Len(fn_in)
    /\ \E j \in 1..Len(fn_out.cells) : fn_out.cells[j].source.imgs # <<>>
    /\ \E j \in 1..Len(fn_out.cells) :
          /\ ~IsSolution(fn_in[fn_out.orig[j] + 1])
          /\ HasKey(fn_out.cells[j], "outputs")
          /\ fn_out.cells[j].outputs # <<>>

----------------------------------------------------------------------------
(* Properties of sequentially_executed (SpecSeq) *)

\* Positions of the cells with non-empty source and a non-null count
CountedAt ==
    {j \in 1..Len(fn_in) :
        /\ fn_in[j].source # SrcEmpty
        /\ "execution_count" \in DOMAIN fn_in[j]
        /\ Len(fn_in[j].execution_count) = 1}

\* C5: the check returns true exactly when the n-th counted cell in document
\* order carries the count n.
C5_SequentialCheck ==
    fn_pc = "checked" =>
        (fn_out = <<TRUE>> <=>
            \A j \in CountedAt :
                fn_in[j].execution_count[1] = Cardinality({m \in CountedAt : m <= j}))

\* C5 witness: the check passed on a notebook with two counted cells and a
\* cell it ignored.
C5_Witness ==
    /\ fn_pc = "checked"
    /\ fn_out = <<TRUE>>
    /\ Cardinality(CountedAt) >= 2
    /\ Cardinality(CountedAt) < Len(fn_in)

----------------------------------------------------------------------------
(* Properties of main (Spec) *)

ExecutingPrinted(path) ==
    \E j \in 1..Len(stdout) : stdout[j].line = "Executing" /\ stdout[j].path = <<path>>

Reported(path, error) ==
    \E j \in 1..Len(stdout) : stdout[j] = Line("failed quality control.", <<path>>, error)

ReportPrinted ==
    \E j \in 1..Len(stdout) :
        stdout[j].line \in {"failed quality control.", "Failure", "Success"}

StudentPath(path) ==
    [dir |-> sub_dir(path.dir, "student"), stem |-> path.stem, ext |-> path.ext]

\* Files the run wrote for the notebook at path
WroteStudent(path) == \E f \in out_fs.student : f.path = StudentPath(path)
WroteStatic(path) ==
    \E f \in out_fs.static : f.dir = sub_dir(path.dir, "static") /\ f.nb_name = path.stem
WroteInput(path) == \E f \in out_fs.inputs : f.path = path

Loaded(path) == path \in Range(hist.loaded)

\* The notebook main read from path
OnDisk(path) == orig_fs[path][1]

\* C1: after a run that wrote its outputs and exited 0, every input path
\* holds the executed notebook with its solution cells intact, and the
\* student copy holds the stripped one.
C1_OriginalKeepsSolutions ==
    (pc = "exited" /\ status = <<0>> /\ ~args.check_only /\ nb_paths # <<>>) =>
        \A path \in Range(nb_paths) :
            /\ \E f \in out_fs.inputs :
                  f.path = path /\ f.content = Executed(OnDisk(path))
            /\ \E f \in out_fs.student :
                  /\ f.path = StudentPath(path)
                  /\ f.content = remove_solutions(Executed(OnDisk(path)), path.stem).cells

\* C6: a notebook whose execution raised gets no student notebook, no
\* image and no overwrite, is in the error report and makes the exit status
\* 1; once any error is recorded nothing at all is written.
C6_FailedNotebookNotWritten ==
    /\ errors # <<>> => out_fs = NoFiles
    /\ \A path \in hist.raised :
          /\ ~WroteStudent(path) /\ ~WroteStatic(path) /\ ~WroteInput(path)
          /\ path \in Keys(errors)
          /\ pc = "exited" => (status = <<1>> /\ Reported(path, Get(errors, path)))

\* C6 witness: the run ended after one notebook raised and another one
\* executed fine, without --check-only.
C6_Witness ==
    /\ pc = "exited"
    /\ ~args.check_only
    /\ hist.raised # {}
    /\ notebooks # <<>>
    /\ Keys(notebooks) \cap hist.raised = {}

\* C7: with --check-only nothing is created or written.
C7_CheckOnlyWritesNothing ==
    "--check-only" \in argv.flags => out_fs = NoFiles

\* C7 witness: a --check-only run ended with every notebook executed fine.
C7_Witness ==
    /\ pc = "exited"
    /\ "--check-only" \in argv.flags
    /\ errors = <<>>
    /\ Len(notebooks) = 2

\* C8: the exit status is 1 exactly when an error was recorded and 0
\* otherwise; paths not ending in .ipynb are never loaded, executed or
\* written; with no .ipynb path the run exits 0 having processed nothing.
C8_ExitStatus ==
    /\ pc = "exited" => status = <<IF errors # <<>> THEN 1 ELSE 0>>
    /\ \A path \in Paths :
          ~IsNotebookPath(path) =>
              /\ ~Loaded(path) /\ ~ExecutingPrinted(path)
              /\ ~WroteStudent(path) /\ ~WroteStatic(path) /\ ~WroteInput(path)
    /\ (pc = "exited" /\ \A j \in 1..Len(argv.files) : ~IsNotebookPath(argv.files[j])) =>
          /\ status = <<0>>
          /\ hist.loaded = <<>>
          /\ out_fs = NoFiles

\* A path failed when the gate rejected its notebook or its execution raised
Failed(path) ==
    \/ GateRejects(OnDisk(path), args.require_sequntial)
    \/ path \in hist.raised

\* C9: when the report is printed every notebook path of the input list has
\* been loaded, in order, and gated or executed; the report names every
\* failed path with its error.
C9_ErrorsDeferred ==
    ReportPrinted =>
        /\ hist.loaded = nb_paths
        /\ \A path \in Range(nb_paths) :
              /\ GateRejects(OnDisk(path), args.require_sequntial) \/ ExecutingPrinted(path)
              /\ Failed(path) =>
                    /\ path \in Keys(errors)
                    /\ pc = "exited" => Reported(path, Get(errors, path))
              /\ GateRejects(OnDisk(path), args.require_sequntial) =>
                    Get(errors, path) = NotSequentialMessage
              /\ ~GateRejects(OnDisk(path), args.require_sequntial) /\ path \in hist.raised =>
                    Get(errors, path) = ExecutionError

\* C9 witness: the report names two failed notebooks, one rejected by the
\* gate before the other one raised in execution.
C9_Witness ==
    /\ pc = "exited"
    /\ Len(errors) = 2
    /\ errors[1].val = NotSequentialMessage
    /\ errors[2].val = ExecutionError
    /\ Reported(errors[1].key, errors[1].val)
    /\ Reported(errors[2].key, errors[2].val)

\* C10: a loaded notebook that fails the sequential check is, by default,
\* never executed and recorded with the not-sequential message; with
\* --allow-non-sequential it is executed and has an error only if its
\* execution raised.
C10_SequentialGate ==
    \A path \in NotebookPaths :
        (Loaded(path) /\ ~sequentially_executed(OnDisk(path))) =>
            IF "--allow-non-sequential" \in argv.flags
            THEN /\ ExecutingPrinted(path)
                 /\ path \in Keys(errors) <=> path \in hist.raised
                 /\ path \in Keys(errors) => Get(errors, path) = ExecutionError
            ELSE /\ ~ExecutingPrinted(path)
                 /\ path \in Keys(errors)
                 /\ Get(errors, path) = NotSequentialMessage

\* C10 witness: under --allow-non-sequential a notebook that fails the
\* sequential check was executed and written out.
C10_Witness ==
    /\ pc = "exited"
    /\ "--allow-non-sequential" \in argv.flags
    /\ \E path \in NotebookPaths :
          /\ Loaded(path)
          /\ ~sequentially_executed(OnDisk(path))
          /\ WroteStudent(path)

====
